---- MODULE Spec2Model ----
(***************************************************************************)
(* Model of the nutrition optimizer: the portion optimization engine       *)
(* (optimizer.NutritionOptimizer) and its callers.                         *)
(*                                                                         *)
(* Units.  Nutrient values are integers in tenths of a unit (kcal or g)    *)
(* per 100 mass units, as in the catalog's per-100 profile.  Quantities    *)
(* are integers in ticks, TicksPerUnit ticks to the mass unit.  An         *)
(* achieved value is  SUM quantity * nutrient , in units of                *)
(* 1 / (1000 * TicksPerUnit); a target t (whole units) is the achieved     *)
(* value t * 1000 * TicksPerUnit.  A tolerance is a whole percentage.      *)
(***************************************************************************)
EXTENDS Integers, Sequences, FiniteSets, TLC

(***************************************************************************)
(* Bounds of the model.                                                    *)
(***************************************************************************)
\* quantities are resolved to 1/TicksPerUnit of a mass unit
TicksPerUnit == 2
\* the solver's quantities are sampled every Step mass units
Step == 25

(***************************************************************************)
(* Engine constants.                                                       *)
(***************************************************************************)
\* per-food serving cap, in mass units ("a few hundred mass units")
ServingCap == 500
\* quantities below this many mass units are unused and not reported
NegligibleThreshold == 1
\* objective weight of a zero target: the deviation is scaled as if the
\* target were this many units
ZeroTargetScale == 1

MetricSet == {"calories", "protein", "carbs", "fat"}

(***************************************************************************)
(* The food catalog (data/foods.csv read by FoodDatabase): food_id ->      *)
(* per-100 nutrient profile and meal_type.  A and B are the two foods of   *)
(* the documented scenarios; X is a mixed food, W has an all-zero profile  *)
(* and B2 and X2 have the profiles of B and X under other identifiers; S   *)
(* carries a meal_type no mask of the planner asks for.                    *)
(***************************************************************************)
Catalog ==
    (1 :> [name |-> "A", calories |-> 1650, protein |-> 310, carbs |-> 0,
           fat |-> 36, meal_type |-> "lunch_dinner"])
 @@ (2 :> [name |-> "B", calories |-> 1300, protein |-> 27, carbs |-> 280,
           fat |-> 3, meal_type |-> "lunch_dinner"])
 @@ (3 :> [name |-> "X", calories |-> 2000, protein |-> 100, carbs |-> 250,
           fat |-> 50, meal_type |-> "breakfast"])
 @@ (4 :> [name |-> "W", calories |-> 0, protein |-> 0, carbs |-> 0,
           fat |-> 0, meal_type |-> "all"])
 @@ (5 :> [name |-> "B2", calories |-> 1300, protein |-> 27, carbs |-> 280,
           fat |-> 3, meal_type |-> "all"])
 @@ (6 :> [name |-> "X2", calories |-> 2000, protein |-> 100, carbs |-> 250,
           fat |-> 50, meal_type |-> "all"])
 @@ (7 :> [name |-> "S", calories |-> 1300, protein |-> 27, carbs |-> 280,
           fat |-> 3, meal_type |-> "snack"])

FoodIds == DOMAIN Catalog

(***************************************************************************)
(* Arithmetic helpers.                                                     *)
(***************************************************************************)
Abs(x) == IF x < 0 THEN -x ELSE x

RECURSIVE Gcd(_, _)
Gcd(a, b) == IF b = 0 THEN a ELSE Gcd(b, a % b)

Lcm(a, b) == (a * b) \div Gcd(a, b)

Range(s) == {s[i] : i \in DOMAIN s}

RECURSIVE SetToSortedSeq(_)
SetToSortedSeq(S) ==
    IF S = {} THEN << >>
    ELSE LET m == CHOOSE x \in S : \A y \in S : x <= y
         IN  <<m>> \o SetToSortedSeq(S \ {m})

RECURSIVE SumSeq(_)
SumSeq(s) == IF s = << >> THEN 0 ELSE Head(s) + SumSeq(Tail(s))

(***************************************************************************)
(* The engine.                                                             *)
(***************************************************************************)
\* the scale of a target: the magnitude its deviation is divided by
TargetScale(t) == IF t = 0 THEN ZeroTargetScale ELSE t

\* a common multiple of the four scales: the objective is compared as the
\* integer  SUM deviation * (Denominator / scale)
Denominator(target) ==
    Lcm(Lcm(TargetScale(target.calories), TargetScale(target.protein)),
        Lcm(TargetScale(target.carbs), TargetScale(target.fat)))

\* (variant: the cap is not applied to the solver's variables)
QuantityGrid_NoCap ==
    {0, 1, ServingCap * TicksPerUnit, 2 * ServingCap * TicksPerUnit}
      \cup {k * Step * TicksPerUnit : k \in 1..((2 * ServingCap) \div Step)}

\* the quantities (ticks) the solve ranges over for one food, all within
\* [0, cap]: 0, one sub-threshold quantity (1 tick), every Step mass units,
\* and the cap
QuantityGrid ==
    {0, 1, ServingCap * TicksPerUnit}
      \cup {k * Step * TicksPerUnit : k \in 1..(ServingCap \div Step)}

\* (variant: the candidates are fed to the solver in the order given)
SortById_AsGiven(cands) == cands

\* candidates in the stable order fed to the solver: by food identifier
SortById(cands) == SetToSortedSeq(Range(cands))

\* achieved value of one metric for quantities alloc (ticks) of foods
RECURSIVE AchievedFrom(_, _, _, _)
AchievedFrom(foods, alloc, m, i) ==
    IF i > Len(foods) THEN 0
    ELSE alloc[i] * Catalog[foods[i]][m] + AchievedFrom(foods, alloc, m, i + 1)

Achieved(foods, alloc, m) == AchievedFrom(foods, alloc, m, 1)

TargetTicks(t) == t * 1000 * TicksPerUnit

\* one metric's term of the objective: |achieved - target| / scale, times D
Term(foods, alloc, target, m, D) ==
    Abs(Achieved(foods, alloc, m) - TargetTicks(target[m]))
      * (D \div TargetScale(target[m]))

\* the objective: the sum over the metrics of |achieved - target| / scale
Deviation(foods, alloc, target, D) ==
    Term(foods, alloc, target, "calories", D)
      + Term(foods, alloc, target, "protein", D)
      + Term(foods, alloc, target, "carbs", D)
      + Term(foods, alloc, target, "fat", D)

\* every allocation within the bounds [0, cap], one quantity per food
Allocations(n) == [1..n -> QuantityGrid]

\* a precedes b in the solver's order: the later food's quantity decides first
RECURSIVE Precedes(_, _, _)
Precedes(a, b, i) ==
    IF i = 0 THEN TRUE
    ELSE IF a[i] # b[i] THEN a[i] < b[i]
    ELSE Precedes(a, b, i - 1)

\* (variant: the last of the tied allocations is returned)
TieBreak_Last(optimal, n) ==
    CHOOSE a \in optimal : \A b \in optimal : Precedes(b, a, n)

\* the tie-break among the optimal allocations: the first in solver order
TieBreak(optimal, n) ==
    CHOOSE a \in optimal : \A b \in optimal : Precedes(a, b, n)

\* the solve: the allocation within [0, cap] minimising the objective
Solve(foods, target) ==
    LET n == Len(foods)
        D == Denominator(target)
        costs == {<<Deviation(foods, a, target, D), a>> : a \in Allocations(n)}
        values == {p[1] : p \in costs}
        best == CHOOSE c \in values : \A d \in values : c <= d
    IN  TieBreak({p[2] : p \in {q \in costs : q[1] = best}}, n)

\* one reported food: identifier, name, quantity and its nutrient amounts
Entry(id, q) ==
    [food_id |-> id, name |-> Catalog[id].name, amount_g |-> q,
     calories |-> q * Catalog[id].calories,
     protein |-> q * Catalog[id].protein,
     carbs |-> q * Catalog[id].carbs,
     fat |-> q * Catalog[id].fat]

Negligible(q) == q < NegligibleThreshold * TicksPerUnit

\* (variant: nothing is truncated before reporting)
Truncate_KeepAll(alloc) == alloc

\* truncation before reporting: a negligible quantity counts as unused
Truncate(alloc) ==
    [i \in DOMAIN alloc |-> IF Negligible(alloc[i]) THEN 0 ELSE alloc[i]]

\* the reported allocation: the foods in use, in solver order
RECURSIVE Report(_, _, _)
Report(foods, alloc, i) ==
    IF i > Len(foods) THEN << >>
    ELSE (IF alloc[i] = 0 THEN << >> ELSE <<Entry(foods[i], alloc[i])>>)
           \o Report(foods, alloc, i + 1)

\* achieved totals: the nutrient sums of an allocation
Totals(foods, alloc) ==
    [m \in MetricSet |-> Achieved(foods, alloc, m)]

\* the tolerance band [t(1-tol), t(1+tol)] of one metric
Band(achieved, t, tol) ==
    /\ achieved * 100 >= TargetTicks(t) * (100 - tol)
    /\ achieved * 100 <= TargetTicks(t) * (100 + tol)

\* (variant: only the upper end of the band is checked)
InBand_UpperOnly(achieved, t, tol) ==
    t = 0 \/ achieved * 100 <= TargetTicks(t) * (100 + tol)

\* (variant: a zero target is checked like any other)
InBand_NoSkip(achieved, t, tol) == Band(achieved, t, tol)

\* the check of one metric: a zero target is not checked
InBand(achieved, t, tol) == t = 0 \/ Band(achieved, t, tol)

\* (variant: the status is decided by the calories alone)
WithinTolerance_CaloriesOnly(totals, target, tol) ==
    InBand(totals.calories, target.calories, tol)

\* (variant: one metric inside its band is enough)
WithinTolerance_Any(totals, target, tol) ==
    \E m \in MetricSet : InBand(totals[m], target[m], tol)

\* all checked metrics lie inside their bands
WithinTolerance(totals, target, tol) ==
    \A m \in MetricSet : InBand(totals[m], target[m], tol)

\* (variant: the tolerance is not checked)
InputError_NoToleranceCheck(cands, target, tol) ==
    \/ cands = << >>
    \/ \E m \in MetricSet : target[m] < 0

\* the input checks made before solving
InputError(cands, target, tol) ==
    \/ cands = << >>
    \/ tol <= 0
    \/ \E m \in MetricSet : target[m] < 0

ErrorResult == [status |-> "error", message |-> "invalid input"]

\* (variant: the totals are summed before the truncation)
Evaluate_TotalsBeforeTruncation(foods, alloc, target, tol) ==
    LET kept == Truncate(alloc)
        totals == Totals(foods, alloc)
    IN  [status |-> IF WithinTolerance(totals, target, tol)
                    THEN "optimal" ELSE "infeasible",
         foods |-> Report(foods, kept, 1),
         totals |-> totals]

\* status, reported foods and totals of a solved allocation
Evaluate(foods, alloc, target, tol) ==
    LET kept == Truncate(alloc)
        totals == Totals(foods, kept)
    IN  [status |-> IF WithinTolerance(totals, target, tol)
                    THEN "optimal" ELSE "infeasible",
         foods |-> Report(foods, kept, 1),
         totals |-> totals]

optimize(cands, target, tol) ==
    IF InputError(cands, target, tol) THEN ErrorResult
    ELSE LET foods == SortById(cands)
         IN  Evaluate(foods, Solve(foods, target), target, tol)

(***************************************************************************)
(* The inputs the callers draw from.                                       *)
(***************************************************************************)
Target(c, p, cb, f) == [calories |-> c, protein |-> p, carbs |-> cb, fat |-> f]

\* candidate food lists handed to NutritionOptimizer(foods_df)
CandidateLists ==
    { << >>, <<1, 2>>, <<2>>, <<3>>, <<4>>, <<2, 5>>, <<5, 2>> }

Targets ==
    { Target(400, 40, 50, 10), Target(640, 40, 0, 10), Target(640, 40, 0, 0),
      Target(500, 25, 50, 10), Target(400, 20, 50, 10), Target(130, 3, 30, 0),
      Target(1, 0, 0, 0), Target(0, 0, 0, 0), Target(400, -1, 50, 10),
      Target(2000, 150, 200, 65) }

\* tolerances, in percent
Tolerances == {0, 5, 15}

Inputs == CandidateLists \X Targets \X Tolerances

\* optimize tabulated over the inputs the callers draw (@@ makes the table
\* an explicit function, evaluated once)
Results ==
    [x \in Inputs |-> optimize(x[1], x[2], x[3])] @@ [x \in {} |-> x]

\* the result of optimize(cands, target, tol)
ResultOf(cands, target, tol) == Results[<<cands, target, tol>>]

(***************************************************************************)
(* The meal planner (MealPlanner): pure parts.  Percentages are whole      *)
(* percents (0.25 is 25); the daily targets drawn below are multiples of   *)
(* 20 and the percentages multiples of 5, so daily * percentage is a whole *)
(* number.                                                                 *)
(***************************************************************************)
\* tolerance=0.15 of the per-meal optimize call, in percent
PlannerTolerance == 15

\* the distribution used when meal_distribution is None
DefaultDistribution ==
    << [meal |-> "breakfast", pct |-> 25],
       [meal |-> "lunch", pct |-> 40],
       [meal |-> "dinner", pct |-> 35] >>

\* (variant: 'all' foods are left out of every meal)
MealTypes_NoAll(meal_name) ==
    IF meal_name = "breakfast" THEN {"breakfast"} ELSE {"lunch_dinner"}

\* (variant: only lunch and dinner get the lunch and dinner foods)
MealTypes_KnownOnly(meal_name) ==
    IF meal_name \in {"lunch", "dinner"} THEN {"lunch_dinner", "all"}
    ELSE {"breakfast", "all"}

\* the meal_type values the mask of a meal lets through
MealTypes(meal_name) ==
    IF meal_name = "breakfast" THEN {"breakfast", "all"}
    ELSE {"lunch_dinner", "all"}

\* self.foods_df[mask]: the rows of the catalog fit for the meal, in order
filter_foods_by_meal(rows, meal_name) ==
    LET Fits(id) == Catalog[id].meal_type \in MealTypes(meal_name)
    IN  SelectSeq(rows, Fits)

\* (variant: the selection also replaces the rows of the catalog frame)
Copy_InPlace(objects, source, fresh, rows) ==
    [objects EXCEPT ![source] = rows, ![fresh] = rows]

\* .copy(): the selected rows become a frame object of their own
Copy(objects, source, fresh, rows) == [objects EXCEPT ![fresh] = rows]

\* (variant: every meal gets the whole daily target)
MealTarget_Unscaled(day, pct) == day

\* daily_calories * percentage, ..., daily_fat * percentage
MealTarget(day, pct) ==
    Target((day.calories * pct) \div 100, (day.protein * pct) \div 100,
           (day.carbs * pct) \div 100, (day.fat * pct) \div 100)

\* (variant: a result that is not optimal is recorded as it came back)
PlanEntry_KeepResult(meal_name, result) == result

\* the entry recorded for a meal
PlanEntry(meal_name, result) ==
    IF result.status = "optimal" THEN result
    ELSE [status |-> "failed",
          message |-> "Could not optimize " \o meal_name]

\* catalogs a FoodDatabase may have loaded (rows by food_id)
Catalogs == { <<3, 1, 2>>, <<3>>, <<1, 6>>, <<7, 1>> }

DailyTargets == { Target(1600, 80, 200, 40), Target(2000, 100, 200, 40) }

\* caller-supplied meal_distribution values
Distributions ==
    { << [meal |-> "lunch", pct |-> 40], [meal |-> "breakfast", pct |-> 25],
         [meal |-> "dinner", pct |-> 35] >>,
      << [meal |-> "breakfast", pct |-> 50], [meal |-> "lunch", pct |-> 50] >>,
      << [meal |-> "breakfast", pct |-> 25], [meal |-> "lunch", pct |-> 25] >>,
      << [meal |-> "snack", pct |-> 100] >> }

\* the meal_distribution argument: left out (None), or a distribution
NotGiven == [given |-> FALSE]

DistributionArgs ==
    {NotGiven} \cup {[given |-> TRUE, value |-> d] : d \in Distributions}

Percentages ==
    UNION { {d[i].pct : i \in DOMAIN d} : d \in Distributions \cup {DefaultDistribution} }

MealNames ==
    UNION { {d[i].meal : i \in DOMAIN d} : d \in Distributions \cup {DefaultDistribution} }

\* the (candidates, target) pairs the planner can hand to the engine
MealInputs ==
    { <<filter_foods_by_meal(c, n), MealTarget(d, p)>> :
        c \in Catalogs, n \in MealNames, d \in DailyTargets, p \in Percentages }

MealResults ==
    [x \in MealInputs |-> optimize(x[1], x[2], PlannerTolerance)]
      @@ [x \in {} |-> x]

\* NutritionOptimizer(meal_foods).optimize(..., tolerance=0.15)
MealResult(cands, target) ==
    IF <<cands, target>> \in DOMAIN MealResults
    THEN MealResults[<<cands, target>>]
    ELSE optimize(cands, target, PlannerTolerance)

\* one engine invocation, as the planner makes it
EngineCall(meal_name, cands, target) ==
    [meal |-> meal_name, foods |-> cands, target |-> target,
     tolerance |-> PlannerTolerance, result |-> MealResult(cands, target)]

\* (variant: a meal that is not optimal is solved a second time)
EngineCalls_RetryOnce(meal_name, cands, target) ==
    IF MealResult(cands, target).status = "optimal"
    THEN << EngineCall(meal_name, cands, target) >>
    ELSE << EngineCall(meal_name, cands, target),
            EngineCall(meal_name, cands, target) >>

\* the engine invocations of one pass of the loop: exactly one
EngineCalls(meal_name, cands, target) ==
    << EngineCall(meal_name, cands, target) >>

\* frame objects: 1 is the frame read from the CSV; 2 and 3 hold the
\* latest two frames filter_foods_by_meal returned
FrameIds == {1, 2, 3}

\* (variant: no frame is allocated, the selection lands in the CSV's frame)
FreshFrame_None(held) == 1

\* the frame object a copy allocates: not the CSV's, not the one held
FreshFrame(held) == IF held = 2 THEN 3 ELSE 2

(***************************************************************************)
(* Input validation (validation.py) and the validators demo.py defines     *)
(* when the import fails.  A result is (is_valid, message); a message is   *)
(* given by its first line, NoMessage stands for None.  The arguments are  *)
(* floats: demo.py hands over float(input(...)), which reads a number or   *)
(* "nan".  The numbers drawn are whole, for which calories * 1.2 and       *)
(* calories * 0.7 compare with the macro calories as 12 * calories and     *)
(* 7 * calories compare with ten times the macro calories.  NaN stands for *)
(* float('nan'): arithmetic on it gives NaN, and every ordering comparison *)
(* with it is False.                                                       *)
(***************************************************************************)
NoMessage == "None"

Valid == [is_valid |-> TRUE, message |-> NoMessage]

Invalid(msg) == [is_valid |-> FALSE, message |-> msg]

\* float('nan'), told apart from the numbers drawn (none of them is -1)
NaN == -1

\* x < y on floats
Less(x, y) == x # NaN /\ y # NaN /\ x < y

\* x <= y on floats
LessEq(x, y) == x # NaN /\ y # NaN /\ x <= y

\* x * k on floats, k a number
Scaled(x, k) == IF x = NaN THEN NaN ELSE x * k

\* (protein * 4) + (carbs * 4) + (fat * 9)
MacroCalories(protein, carbs, fat) ==
    IF NaN \in {protein, carbs, fat} THEN NaN
    ELSE protein * 4 + carbs * 4 + fat * 9

\* (variant: a calorie target of exactly 500 is turned down)
validate_custom_targets_Strict(calories, protein, carbs, fat) ==
    IF LessEq(calories, 500) \/ Less(5000, calories)
    THEN Invalid("calories out of range")
    ELSE IF Less(Scaled(calories, 12),
                 Scaled(MacroCalories(protein, carbs, fat), 10))
            \/ Less(Scaled(MacroCalories(protein, carbs, fat), 10),
                    Scaled(calories, 7))
    THEN Invalid("macros do not match")
    ELSE IF Less(protein, 30) \/ Less(carbs, 50) \/ Less(fat, 20)
            \/ Less(400, protein) \/ Less(600, carbs) \/ Less(200, fat)
    THEN Invalid("macro out of range")
    ELSE Valid

\* validation.validate_custom_targets
validate_custom_targets(calories, protein, carbs, fat) ==
    LET min_calories_from_macros == MacroCalories(protein, carbs, fat)
    IN  IF Less(calories, 500)
        THEN Invalid("WARNING: Calorie target is very low (< 500 kcal)")
        ELSE IF Less(Scaled(calories, 12), Scaled(min_calories_from_macros, 10))
        THEN Invalid("ERROR: Macronutrients don't match calorie target!")
        ELSE IF Less(Scaled(min_calories_from_macros, 10), Scaled(calories, 7))
        THEN Invalid("WARNING: Macronutrients are too low for calorie target")
        ELSE IF Less(protein, 30) THEN Invalid("WARNING: Protein is too low")
        ELSE IF Less(carbs, 50) THEN Invalid("WARNING: Carbs are too low")
        ELSE IF Less(fat, 20) THEN Invalid("WARNING: Fat is too low")
        ELSE IF Less(400, protein) THEN Invalid("WARNING: Protein is very high")
        ELSE IF Less(600, carbs) THEN Invalid("WARNING: Carbs are very high")
        ELSE IF Less(200, fat) THEN Invalid("WARNING: Fat is very high")
        ELSE IF Less(5000, calories)
        THEN Invalid("WARNING: Calories are very high")
        ELSE Valid

\* validation.validate_bmi_inputs
validate_bmi_inputs(weight, height, years) ==
    IF Less(weight, 30) \/ Less(300, weight)
    THEN Invalid("ERROR: Weight must be between 30-300 kg")
    ELSE IF Less(height, 100) \/ Less(250, height)
    THEN Invalid("ERROR: Height must be between 100-250 cm")
    ELSE IF Less(years, 15) \/ Less(100, years)
    THEN Invalid("ERROR: Age must be between 15-100 years")
    ELSE Valid

\* (variant: the fallback has no upper limit on the calories)
fallback_validate_custom_targets_NoCalorieCap(calories, protein, carbs, fat) ==
    LET min_calories_from_macros == MacroCalories(protein, carbs, fat)
    IN  IF Less(calories, 500)
        THEN Invalid("WARNING: Calorie target is very low (< 500 kcal)")
        ELSE IF Less(Scaled(calories, 12), Scaled(min_calories_from_macros, 10))
        THEN Invalid("ERROR: Macronutrients don't match calorie target!")
        ELSE IF Less(Scaled(min_calories_from_macros, 10), Scaled(calories, 7))
        THEN Invalid("WARNING: Macronutrients too low for calorie target")
        ELSE IF Less(protein, 30) \/ Less(carbs, 50) \/ Less(fat, 20)
        THEN Invalid("WARNING: Some macros are too low (min: 30g P, 50g C, 20g F)")
        ELSE IF Less(400, protein) \/ Less(600, carbs) \/ Less(200, fat)
        THEN Invalid("WARNING: Some values are very high")
        ELSE Valid

\* demo.py's own validate_custom_targets (defined on ImportError)
fallback_validate_custom_targets(calories, protein, carbs, fat) ==
    LET min_calories_from_macros == MacroCalories(protein, carbs, fat)
    IN  IF Less(calories, 500)
        THEN Invalid("WARNING: Calorie target is very low (< 500 kcal)")
        ELSE IF Less(Scaled(calories, 12), Scaled(min_calories_from_macros, 10))
        THEN Invalid("ERROR: Macronutrients don't match calorie target!")
        ELSE IF Less(Scaled(min_calories_from_macros, 10), Scaled(calories, 7))
        THEN Invalid("WARNING: Macronutrients too low for calorie target")
        ELSE IF Less(protein, 30) \/ Less(carbs, 50) \/ Less(fat, 20)
        THEN Invalid("WARNING: Some macros are too low (min: 30g P, 50g C, 20g F)")
        ELSE IF Less(400, protein) \/ Less(600, carbs) \/ Less(200, fat)
                \/ Less(5000, calories)
        THEN Invalid("WARNING: Some values are very high")
        ELSE Valid

\* demo.py's own validate_bmi_inputs (defined on ImportError)
fallback_validate_bmi_inputs(weight, height, years) ==
    IF Less(weight, 30) \/ Less(300, weight)
    THEN Invalid("ERROR: Weight must be between 30-300 kg")
    ELSE IF Less(height, 100) \/ Less(250, height)
    THEN Invalid("ERROR: Height must be between 100-250 cm")
    ELSE IF Less(years, 15) \/ Less(100, years)
    THEN Invalid("ERROR: Age must be between 15-100 years")
    ELSE Valid

\* the values a caller may hand to the validators
CalorieInputs == {499, 500, 2000, 5000, 5001, NaN}
ProteinInputs == {29, 30, 100, 150, 400, 401, NaN}
CarbsInputs == {49, 50, 160, 200, 225, 600, 601, NaN}
FatInputs == {19, 20, 40, 50, 100, 200, 201, NaN}
WeightInputs == {29, 30, 70, 300, 301, NaN}
HeightInputs == {99, 100, 175, 250, 251, NaN}
AgeInputs == {14, 15, 30, 100, 101, NaN}

(***************************************************************************)
(* The calorie calculator (CalorieCalculator).  Weight, height and age are *)
(* whole numbers; BMR is kept in quarters (6.25 * height), the activity    *)
(* multipliers in fortieths (1.375 = 55/40), so TDEE and the calorie       *)
(* target are exact in 160ths of a kcal.  Targets are in tenths.           *)
(***************************************************************************)
\* round(): to the nearest whole number, a tie to the even one
RoundHalfEven(n, d) ==
    LET q == n \div d
        r == n % d
    IN  IF 2 * r < d THEN q
        ELSE IF 2 * r > d THEN q + 1
        ELSE IF q % 2 = 0 THEN q ELSE q + 1

\* calculate_bmr (Mifflin-St Jeor), times 4
calculate_bmr(weight_kg, height_cm, age, gender) ==
    IF gender = "male"
    THEN 40 * weight_kg + 25 * height_cm - 20 * age + 20
    ELSE 40 * weight_kg + 25 * height_cm - 20 * age - 644

\* activity_multipliers[...]['multiplier'], times 40
Multiplier(activity_level) ==
    CASE activity_level = "1" -> 48
      [] activity_level = "2" -> 55
      [] activity_level = "3" -> 62
      [] activity_level = "4" -> 69
      [] activity_level = "5" -> 76

\* calculate_tdee, times 160
calculate_tdee(bmr, activity_level) == bmr * Multiplier(activity_level)

\* (variant: the weight-loss target is never taken below zero)
get_calorie_target_Floored(tdee, goal) ==
    IF goal = "weight_loss"
    THEN (IF tdee - 500 * 160 < 0 THEN 0 ELSE tdee - 500 * 160)
    ELSE IF goal = "muscle_gain" THEN tdee + 300 * 160
    ELSE tdee

\* get_calorie_target, times 160
get_calorie_target(tdee, goal) ==
    IF goal = "weight_loss" THEN tdee - 500 * 160
    ELSE IF goal = "muscle_gain" THEN tdee + 300 * 160
    ELSE tdee

\* the share of the calories of each macro, in percent
MacroRatios(goal) ==
    IF goal = "weight_loss" THEN [protein |-> 35, carbs |-> 35, fat |-> 30]
    ELSE IF goal = "muscle_gain" THEN [protein |-> 30, carbs |-> 45, fat |-> 25]
    ELSE [protein |-> 30, carbs |-> 40, fat |-> 30]

\* calculate_macros: grams rounded to one decimal, in tenths of a gram
calculate_macros(calories160, goal) ==
    [protein |-> RoundHalfEven(calories160 * MacroRatios(goal).protein * 10,
                               160 * 100 * 4),
     carbs |-> RoundHalfEven(calories160 * MacroRatios(goal).carbs * 10,
                             160 * 100 * 4),
     fat |-> RoundHalfEven(calories160 * MacroRatios(goal).fat * 10,
                           160 * 100 * 9)]

\* get_personalized_plan(...)['targets'], in tenths
PersonalizedTargets(weight, height, age, gender, activity, goal) ==
    LET bmr == calculate_bmr(weight, height, age, gender)
        tdee == calculate_tdee(bmr, activity)
        target_calories == get_calorie_target(tdee, goal)
        macros == calculate_macros(target_calories, goal)
    IN  [calories |-> 10 * RoundHalfEven(target_calories, 160),
         protein |-> macros.protein,
         carbs |-> macros.carbs,
         fat |-> macros.fat]

\* show_preset_options: the presets, in tenths
Presets ==
    [c \in {"1", "2", "3"} |->
        IF c = "1" THEN Target(18000, 1400, 1500, 600)
        ELSE IF c = "2" THEN Target(25000, 1800, 2800, 700)
        ELSE Target(20000, 1500, 2000, 650)]

\* calculate_bmi(weight_kg, height_cm) for a weight in tenths of a kg: bmi is
\* 1000 * weight10 / height_cm^2, the category is that of the unrounded bmi
\* and the 'bmi' reported is round(bmi, 1), here in tenths
calculate_bmi(weight10, height_cm) ==
    LET n == 1000 * weight10
        d == height_cm * height_cm
    IN  [bmi |-> RoundHalfEven(10 * n, d),
         category |-> IF 2 * n < 37 * d THEN "Underweight"
                      ELSE IF n < 25 * d THEN "Normal"
                      ELSE IF n < 30 * d THEN "Overweight"
                      ELSE "Obese"]

\* the weights (tenths of a kg) and heights (cm) calculate_bmi is called on;
\* for none of them bmi is a threshold or halfway between two tenths, so
\* the float result has the category and the rounding of the exact one
BmiWeights == 500..800

BmiHeights == {165, 170, 175, 180, 185}

\* what the user may type into the calculator: weight, height, age, gender
People ==
    { <<70, 175, 30, "male">>, <<60, 165, 30, "female">>,
      <<30, 100, 100, "female">>, <<30, 100, 100, "male">> }
Activities == {"1", "2", "3", "4", "5"}
Goals == {"weight_loss", "maintenance", "muscle_gain"}

\* what the user may type as custom targets (calories, protein, carbs, fat)
CustomEntries ==
    { <<2000, 100, 200, 50>>, <<500, 30, 50, 20>>, <<5000, 400, 600, 200>>,
      <<499, 30, 50, 20>>, <<2000, 29, 200, 50>>, <<5001, 400, 600, 200>>,
      <<-100, -10, -10, -10>>, <<NaN, 100, 200, 50>> }

(***************************************************************************)
(* State.                                                                  *)
(***************************************************************************)
VARIABLES
    foods_df,     \* the optimizer instance's candidate foods
    last,         \* the latest call on the instance and its result, or None
    remembered    \* an earlier call and its result, kept by the caller, or None

vars == <<foods_df, last, remembered>>

VARIABLES
    loaded,            \* the rows read from the CSV when the catalog was loaded
    frames,            \* the frame objects: frame id -> rows
    df,                \* FoodDatabase.df: the frame read from the CSV
    planner_df,        \* MealPlanner.foods_df
    meal_foods,        \* the frame filter_foods_by_meal returned last (0: none)
    frame_meal,        \* frame id -> the meal it was filtered for ("": none, "edited")
    daily,             \* daily_calories .. daily_fat of the current call
    given,             \* the meal_distribution argument, or NotGiven
    meal_distribution, \* the distribution in use
    pos,               \* meals of the distribution already handled
    pc,                \* create_daily_plan: "idle", "loop" or "returned"
    daily_plan,        \* meal name -> entry
    calls,             \* the engine invocations of the current call, in order
    previous,          \* the plan returned before the current call, or None
    grand_total        \* what print_daily_plan summed up last, or None

plannerVars ==
    <<loaded, frames, df, planner_df, meal_foods, frame_meal, daily, given,
      meal_distribution, pos, pc, daily_plan, calls, previous, grand_total>>

VARIABLES
    imported,     \* whether demo.py's import of the validation module succeeded
    demo_pc,      \* run(): "menu", "custom", "confirmed", "planned", "retry",
                  \* "viz", "visualize", "again" or "exited"
    choice,       \* the menu choice made last ("": none yet)
    path,         \* how the targets were obtained ("": not yet)
    attempt,      \* get_user_targets: failed attempts so far
    targets,      \* run(): targets, in tenths, or None
    passed,       \* the targets handed to create_daily_plan in this
                  \* iteration and the path they came by, or None
    got,          \* the call of get_user_targets made in this iteration:
                  \* its passes and what it returned, or None
    run_plan,     \* run(): plan, what create_daily_plan returned, or None
    success,      \* run(): what display_results returned, or None
    displayed     \* the call of display_results made last: the plan, what
                  \* was returned and whether the plan was printed, or None

demoVars ==
    <<imported, demo_pc, choice, path, attempt, targets, passed, got,
      run_plan, success, displayed>>

VARIABLES
    checked       \* the validator call made last and what it returned, or None

VARIABLES
    bmi_data      \* the call of calculate_bmi made last and its result, or None

besidesEngine == <<plannerVars, demoVars, checked, bmi_data>>

besidesPlanner == <<vars, demoVars, checked, bmi_data>>

besidesDemo == <<vars, plannerVars, checked, bmi_data>>

besidesValidation == <<vars, plannerVars, demoVars, bmi_data>>

besidesCalculator == <<vars, plannerVars, demoVars, checked>>

None == [status |-> "none"]

\* FoodDatabase.get_all_foods: the frame itself, not a copy
get_all_foods(d) == d

\* FoodDatabase(csv) read `rows`, MealPlanner(db.get_all_foods()) holds it
PlannerConstructed(rows) ==
    /\ loaded = rows
    /\ frames = [i \in FrameIds |-> IF i = 1 THEN rows ELSE << >>]
    /\ df = 1
    /\ planner_df = get_all_foods(df)
    /\ meal_foods = 0
    /\ frame_meal = [i \in FrameIds |-> ""]
    /\ daily = None
    /\ given = NotGiven
    /\ meal_distribution = << >>
    /\ pos = 0
    /\ pc = "idle"
    /\ daily_plan = << >>
    /\ calls = << >>
    /\ previous = None
    /\ grand_total = None

\* NutritionDemo() is constructed and run() has shown the menu
DemoStarted(ok) ==
    /\ imported = ok
    /\ demo_pc = "menu"
    /\ choice = ""
    /\ path = ""
    /\ attempt = 0
    /\ targets = None
    /\ passed = None
    /\ got = None
    /\ run_plan = None
    /\ success = None
    /\ displayed = None

Init ==
    /\ foods_df \in CandidateLists
    /\ last = None
    /\ remembered = None
    /\ PlannerConstructed(<< >>)
    /\ DemoStarted(FALSE)
    /\ checked = None
    /\ bmi_data = None

\* NutritionOptimizer(foods_df): a new instance over a candidate list
NewOptimizer ==
    \E c \in CandidateLists :
        /\ foods_df' = c
        /\ last' = None
        /\ UNCHANGED remembered
        /\ UNCHANGED besidesEngine

\* optimizer.optimize(target_calories, target_protein, target_carbs,
\* target_fat, tolerance) on the instance; the caller may keep the previous
\* call's result
Optimize ==
    \E t \in Targets, tol \in Tolerances, keep \in BOOLEAN :
        /\ last' = [foods |-> foods_df, target |-> t, tolerance |-> tol,
                    result |-> ResultOf(foods_df, t, tol)]
        /\ remembered' = IF keep /\ last # None THEN last ELSE remembered
        /\ UNCHANGED foods_df
        /\ UNCHANGED besidesEngine

Next == NewOptimizer \/ Optimize

Spec == Init /\ [][Next]_vars

(***************************************************************************)
(* The meal planner: MealPlanner over a loaded catalog, its callers.       *)
(***************************************************************************)
PlannerInit ==
    /\ foods_df = << >>
    /\ last = None
    /\ remembered = None
    /\ \E rows \in Catalogs : PlannerConstructed(rows)
    /\ DemoStarted(FALSE)
    /\ checked = None
    /\ bmi_data = None

\* the frame filter_foods_by_meal(meal_name) returns, and the frames after it
Filtered(meal_name) ==
    LET fresh == FreshFrame(meal_foods)
        rows == filter_foods_by_meal(frames[planner_df], meal_name)
    IN  [id |-> fresh, frames |-> Copy(frames, planner_df, fresh, rows)]

\* a caller calls planner.filter_foods_by_meal(meal_name) and keeps the frame
FilterFoodsByMeal ==
    \E n \in MealNames :
        /\ pc # "loop"
        /\ frames' = Filtered(n).frames
        /\ meal_foods' = Filtered(n).id
        /\ frame_meal' = [frame_meal EXCEPT ![Filtered(n).id] = n]
        /\ UNCHANGED <<loaded, df, planner_df, daily, given, meal_distribution,
                       pos, pc, daily_plan, calls, previous, grand_total>>
        /\ UNCHANGED besidesPlanner

\* whoever holds the frame returned last changes it in place (drops a row)
EditMealFoods ==
    /\ meal_foods # 0
    /\ frames[meal_foods] # << >>
    /\ frames' = [frames EXCEPT ![meal_foods] = Tail(@)]
    /\ frame_meal' = [frame_meal EXCEPT ![meal_foods] = "edited"]
    /\ UNCHANGED <<loaded, df, planner_df, meal_foods, daily, given,
                   meal_distribution, pos, pc, daily_plan, calls, previous,
                   grand_total>>
    /\ UNCHANGED besidesPlanner

\* create_daily_plan(daily_calories, ..., meal_distribution) is entered: the
\* default distribution is filled in and the plan starts empty
CreateDailyPlan ==
    \E d \in DailyTargets, md \in DistributionArgs :
        /\ pc # "loop"
        /\ daily' = d
        /\ given' = md
        /\ meal_distribution' = IF md = NotGiven THEN DefaultDistribution
                                ELSE md.value
        /\ daily_plan' = << >>
        /\ calls' = << >>
        /\ pos' = 0
        /\ pc' = "loop"
        /\ previous' = IF pc = "returned"
                       THEN [daily |-> daily,
                             meal_distribution |-> meal_distribution,
                             daily_plan |-> daily_plan]
                       ELSE previous
        /\ UNCHANGED <<loaded, frames, df, planner_df, meal_foods, frame_meal,
                       grand_total>>
        /\ UNCHANGED besidesPlanner

\* one pass of the loop: filter, a new optimizer, optimize, record the entry
OptimizeMeal ==
    /\ pc = "loop"
    /\ pos < Len(meal_distribution)
    /\ LET meal_name == meal_distribution[pos + 1].meal
           percentage == meal_distribution[pos + 1].pct
           f == Filtered(meal_name)
           cands == f.frames[f.id]
           target == MealTarget(daily, percentage)
           result == MealResult(cands, target)
           entry == PlanEntry(meal_name, result)
       IN  /\ frames' = f.frames
           /\ meal_foods' = f.id
           /\ frame_meal' = [frame_meal EXCEPT ![f.id] = meal_name]
           /\ calls' = calls \o EngineCalls(meal_name, cands, target)
           /\ daily_plan' =
                [n \in DOMAIN daily_plan \cup {meal_name} |->
                    IF n = meal_name THEN entry ELSE daily_plan[n]]
    /\ pos' = pos + 1
    /\ UNCHANGED <<loaded, df, planner_df, daily, given, meal_distribution,
                   pc, previous, grand_total>>
    /\ UNCHANGED besidesPlanner

\* return daily_plan
ReturnPlan ==
    /\ pc = "loop"
    /\ pos = Len(meal_distribution)
    /\ pc' = "returned"
    /\ UNCHANGED <<loaded, frames, df, planner_df, meal_foods, frame_meal,
                   daily, given, meal_distribution, pos, daily_plan, calls,
                   previous, grand_total>>
    /\ UNCHANGED besidesPlanner

\* the meals of a plan whose entry is optimal
OptimalMeals(plan) == {n \in DOMAIN plan : plan[n].status = "optimal"}

RECURSIVE SumOver(_, _, _)
SumOver(plan, names, m) ==
    IF names = {} THEN 0
    ELSE LET n == CHOOSE x \in names : TRUE
         IN  plan[n].totals[m] + SumOver(plan, names \ {n}, m)

\* print_daily_plan(plan): reads the plan and looks names up in foods_df
print_daily_plan ==
    /\ pc = "returned"
    /\ grand_total' =
         [m \in MetricSet |-> SumOver(daily_plan, OptimalMeals(daily_plan), m)]
    /\ UNCHANGED <<loaded, frames, df, planner_df, meal_foods, frame_meal,
                   daily, given, meal_distribution, pos, pc, daily_plan, calls,
                   previous>>
    /\ UNCHANGED besidesPlanner

PlannerNext ==
    \/ FilterFoodsByMeal
    \/ EditMealFoods
    \/ CreateDailyPlan
    \/ OptimizeMeal
    \/ ReturnPlan
    \/ print_daily_plan

PlannerSpec == PlannerInit /\ [][PlannerNext]_plannerVars

(***************************************************************************)
(* The validators, called on the values a caller may hand them; each call  *)
(* is answered by validation.py's function and by demo.py's own.           *)
(***************************************************************************)
ValidationInit ==
    /\ foods_df = << >>
    /\ last = None
    /\ remembered = None
    /\ PlannerConstructed(<< >>)
    /\ DemoStarted(FALSE)
    /\ checked = None
    /\ bmi_data = None

ValidateCustomTargets ==
    \E c \in CalorieInputs, p \in ProteinInputs, cb \in CarbsInputs,
       f \in FatInputs :
        /\ checked' = [fn |-> "validate_custom_targets",
                       args |-> <<c, p, cb, f>>,
                       result |-> validate_custom_targets(c, p, cb, f),
                       fallback |-> fallback_validate_custom_targets(c, p, cb, f)]
        /\ UNCHANGED besidesValidation

ValidateBmiInputs ==
    \E w \in WeightInputs, h \in HeightInputs, a \in AgeInputs :
        /\ checked' = [fn |-> "validate_bmi_inputs",
                       args |-> <<w, h, a>>,
                       result |-> validate_bmi_inputs(w, h, a),
                       fallback |-> fallback_validate_bmi_inputs(w, h, a)]
        /\ UNCHANGED besidesValidation

ValidationNext == ValidateCustomTargets \/ ValidateBmiInputs

ValidationSpec == ValidationInit /\ [][ValidationNext]_checked

(***************************************************************************)
(* The calculator's calculate_bmi, called on the weights and heights a     *)
(* caller may hand it.                                                     *)
(***************************************************************************)
CalculatorInit ==
    /\ foods_df = << >>
    /\ last = None
    /\ remembered = None
    /\ PlannerConstructed(<< >>)
    /\ DemoStarted(FALSE)
    /\ checked = None
    /\ bmi_data = None

CalculateBmi ==
    \E w \in BmiWeights, h \in BmiHeights :
        /\ bmi_data' = [weight10 |-> w, height_cm |-> h,
                        bmi |-> calculate_bmi(w, h).bmi,
                        category |-> calculate_bmi(w, h).category]
        /\ UNCHANGED besidesCalculator

CalculatorNext == CalculateBmi

CalculatorSpec == CalculatorInit /\ [][CalculatorNext]_bmi_data

(***************************************************************************)
(* The demo's main loop (NutritionDemo.run).                               *)
(***************************************************************************)
DemoInit ==
    /\ foods_df = << >>
    /\ last = None
    /\ remembered = None
    /\ PlannerConstructed(<< >>)
    /\ \E ok \in BOOLEAN : DemoStarted(ok)
    /\ checked = None
    /\ bmi_data = None

\* the validate_custom_targets the demo ends up with
DemoValidate(c, p, cb, f) ==
    IF imported THEN validate_custom_targets(c, p, cb, f)
    ELSE fallback_validate_custom_targets(c, p, cb, f)

\* choice '1': get_personalized_plan(); a ValueError gives None and the menu
ChooseCalculator ==
    /\ demo_pc = "menu"
    /\ choice' = "1"
    /\ \/ \E who \in People, act \in Activities, goal \in Goals :
             /\ targets' = PersonalizedTargets(who[1], who[2], who[3], who[4],
                                                act, goal)
             /\ path' = "calculator"
             /\ demo_pc' = "confirmed"
       \/ /\ targets' = None
          /\ UNCHANGED <<path, demo_pc>>
    /\ passed' = None
    /\ got' = None
    /\ UNCHANGED <<imported, attempt, run_plan, success, displayed>>
    /\ UNCHANGED besidesDemo

\* choice '2': show_preset_options(); '4' there goes back to the menu
ChoosePreset ==
    /\ demo_pc = "menu"
    /\ choice' = "2"
    /\ \E c \in {"1", "2", "3", "4"} :
          IF c \in DOMAIN Presets
          THEN /\ targets' = Presets[c]
               /\ path' = "preset"
               /\ demo_pc' = "confirmed"
          ELSE /\ targets' = None
               /\ UNCHANGED <<path, demo_pc>>
    /\ passed' = None
    /\ got' = None
    /\ UNCHANGED <<imported, attempt, run_plan, success, displayed>>
    /\ UNCHANGED besidesDemo

\* choice '3': get_user_targets() is entered
ChooseCustom ==
    /\ demo_pc = "menu"
    /\ choice' = "3"
    /\ demo_pc' = "custom"
    /\ attempt' = 0
    /\ targets' = None
    /\ got' = [status |-> "asking", failures |-> << >>, prompts |-> 0]
    /\ passed' = None
    /\ UNCHANGED <<imported, path, run_plan, success, displayed>>
    /\ UNCHANGED besidesDemo

max_attempts == 3

\* (variant: a failed attempt is not counted)
Failed_NotCounted(n) == n

\* attempt += 1
Failed(n) == n + 1

\* the dictionary get_user_targets returns for the four numbers read
Entered(e) ==
    Target(Scaled(e[1], 10), Scaled(e[2], 10), Scaled(e[3], 10),
           Scaled(e[4], 10))

\* a pass of get_user_targets ends in a failure of the given kind: the loop
\* goes on, or None is returned to the menu once max_attempts is reached
FailedAttempt(kind) ==
    /\ attempt' = Failed(attempt)
    /\ IF Failed(attempt) < max_attempts
       THEN /\ demo_pc' = "custom"
            /\ got' = [got EXCEPT !.failures = Append(@, kind),
                                  !.prompts = @ + 1]
       ELSE /\ demo_pc' = "menu"
            /\ got' = [status |-> "returned",
                       failures |-> Append(got.failures, kind),
                       prompts |-> got.prompts + 1,
                       value |-> None]
    /\ UNCHANGED <<targets, path>>

\* one pass of the loop of get_user_targets: four numbers are read and
\* validated, or something that is no number is typed (ValueError)
EnterTargets ==
    /\ demo_pc = "custom"
    /\ attempt < max_attempts
    /\ \/ \E e \in CustomEntries :
             IF DemoValidate(e[1], e[2], e[3], e[4]).is_valid
             THEN /\ targets' = Entered(e)
                  /\ path' = "custom"
                  /\ demo_pc' = "confirmed"
                  /\ got' = [status |-> "returned",
                             failures |-> got.failures,
                             prompts |-> got.prompts + 1,
                             value |-> Entered(e),
                             entry |-> e]
                  /\ UNCHANGED attempt
             ELSE FailedAttempt("invalid")
       \/ FailedAttempt("ValueError")
    /\ UNCHANGED <<imported, choice, passed, run_plan, success, displayed>>
    /\ UNCHANGED besidesDemo

\* choice '4'
ChooseExit ==
    /\ demo_pc = "menu"
    /\ choice' = "4"
    /\ demo_pc' = "exited"
    /\ targets' = None
    /\ passed' = None
    /\ got' = None
    /\ UNCHANGED <<imported, path, attempt, run_plan, success, displayed>>
    /\ UNCHANGED besidesDemo

\* (variant: any other choice goes on with the targets of a preset)
AfterInvalidChoice_GoesOn == [demo_pc |-> "confirmed", targets |-> Presets["1"]]

\* anything else: "Invalid choice!" and continue
AfterInvalidChoice == [demo_pc |-> "menu", targets |-> None]

InvalidChoice ==
    /\ demo_pc = "menu"
    /\ choice' = "other"
    /\ targets' = AfterInvalidChoice.targets
    /\ demo_pc' = AfterInvalidChoice.demo_pc
    /\ passed' = None
    /\ got' = None
    /\ UNCHANGED <<imported, path, attempt, run_plan, success, displayed>>
    /\ UNCHANGED besidesDemo

\* the plans create_daily_plan returns for the default distribution: every
\* meal has an entry, with status 'optimal' or 'failed'
RunPlans ==
    [{"breakfast", "lunch", "dinner"} ->
        {[status |-> "optimal"], [status |-> "failed"]}]

\* plans display_results may be handed by any caller
AnyPlans ==
    RunPlans \cup { << >> }
      \cup [{"snack"} -> {[status |-> "optimal"], [status |-> "infeasible"]}]

\* optimize_meals(targets): create_daily_plan is called with the targets
OptimizeMeals ==
    /\ demo_pc = "confirmed"
    /\ passed' = [path |-> path, targets |-> targets, choice |-> choice]
    /\ \E p \in RunPlans : run_plan' = p
    /\ demo_pc' = "planned"
    /\ UNCHANGED <<imported, choice, path, attempt, targets, got, success,
                   displayed>>
    /\ UNCHANGED besidesDemo

\* (variant: a plan with a failed meal is turned down)
display_results_AllOptimal(p) ==
    IF DOMAIN p = {} \/ \E n \in DOMAIN p : p[n].status # "optimal"
    THEN [success |-> FALSE, printed |-> FALSE]
    ELSE [success |-> TRUE, printed |-> TRUE]

\* display_results(plan, targets): what it returns and whether it called
\* print_daily_plan
display_results(p) ==
    IF DOMAIN p = {} \/ \A n \in DOMAIN p : p[n].status # "optimal"
    THEN [success |-> FALSE, printed |-> FALSE]
    ELSE [success |-> TRUE, printed |-> TRUE]

\* display_results called by anyone but run(), before the loop is entered
CallDisplayResults ==
    /\ demo_pc = "menu"
    /\ choice = ""
    /\ \E p \in AnyPlans :
          displayed' = [plan |-> p, by |-> "caller",
                        success |-> display_results(p).success,
                        printed |-> display_results(p).printed]
    /\ UNCHANGED <<imported, demo_pc, choice, path, attempt, targets, passed,
                   got, run_plan, success>>
    /\ UNCHANGED besidesDemo

\* success = self.display_results(plan, targets)
DisplayResults ==
    /\ demo_pc = "planned"
    /\ success' = display_results(run_plan).success
    /\ displayed' = [plan |-> run_plan, by |-> "run",
                     success |-> display_results(run_plan).success,
                     printed |-> display_results(run_plan).printed]
    /\ demo_pc' = IF display_results(run_plan).success THEN "viz" ELSE "retry"
    /\ UNCHANGED <<imported, choice, path, attempt, targets, passed, got, run_plan>>
    /\ UNCHANGED besidesDemo

\* "Try different targets? (y/n)"
RetryPrompt ==
    /\ demo_pc = "retry"
    /\ \E retry \in {"y", "n"} :
          demo_pc' = IF retry # "y" THEN "exited" ELSE "menu"
    /\ UNCHANGED <<imported, choice, path, attempt, targets, passed, got, run_plan,
                   success, displayed>>
    /\ UNCHANGED besidesDemo

\* "Generate visualization? (y/n)"
VizPrompt ==
    /\ demo_pc = "viz"
    /\ \E viz \in {"y", "n"} :
          demo_pc' = IF viz = "y" THEN "visualize" ELSE "again"
    /\ UNCHANGED <<imported, choice, path, attempt, targets, passed, got, run_plan,
                   success, displayed>>
    /\ UNCHANGED besidesDemo

\* visualize_results(plan, targets): it returns, or its exception is caught
VisualizeResults ==
    /\ demo_pc = "visualize"
    /\ demo_pc' = "again"
    /\ UNCHANGED <<imported, choice, path, attempt, targets, passed, got, run_plan,
                   success, displayed>>
    /\ UNCHANGED besidesDemo

\* "Create another plan? (y/n)"
AgainPrompt ==
    /\ demo_pc = "again"
    /\ \E again \in {"y", "n"} :
          demo_pc' = IF again # "y" THEN "exited" ELSE "menu"
    /\ UNCHANGED <<imported, choice, path, attempt, targets, passed, got, run_plan,
                   success, displayed>>
    /\ UNCHANGED besidesDemo

DemoNext ==
    \/ ChooseCalculator
    \/ ChoosePreset
    \/ ChooseCustom
    \/ EnterTargets
    \/ ChooseExit
    \/ InvalidChoice
    \/ OptimizeMeals
    \/ CallDisplayResults
    \/ DisplayResults
    \/ RetryPrompt
    \/ VizPrompt
    \/ VisualizeResults
    \/ AgainPrompt

DemoSpec == DemoInit /\ [][DemoNext]_demoVars

(***************************************************************************)
(* Properties.                                                             *)
(***************************************************************************)
Called == last # None

Scenario1Target == Target(400, 40, 50, 10)

Scenario2Targets == {Target(640, 40, 0, 10), Target(640, 40, 0, 0)}

\* the last call passed the input checks and was solved
Converged == Called /\ ~InputError(last.foods, last.target, last.tolerance)

\* every metric of the last result lies in its band, zero targets included
AllInBand ==
    \A m \in MetricSet :
        Band(last.result.totals[m], last.target[m], last.tolerance)

\* every metric with a non-zero target lies in its band
NonZeroInBand ==
    \A m \in MetricSet :
        last.target[m] # 0 =>
            Band(last.result.totals[m], last.target[m], last.tolerance)

\* some allocation within [0, cap] puts all four metrics inside their bands
FeasibleExists(cands, target, tol) ==
    LET foods == SortById(cands)
    IN  \E a \in Allocations(Len(foods)) :
            \A m \in MetricSet : Band(Achieved(foods, a, m), target[m], tol)

Feasible ==
    [x \in Inputs |-> IF InputError(x[1], x[2], x[3]) THEN FALSE
                      ELSE FeasibleExists(x[1], x[2], x[3])]
      @@ [x \in {} |-> x]

\* C1: whenever some allocation within the caps puts all four metrics inside
\* their tolerance bands, optimize returns optimal with all four achieved
\* metrics inside the band.
C1_FeasibleImpliesOptimal ==
    (Converged /\ Feasible[<<last.foods, last.target, last.tolerance>>])
        => (last.result.status = "optimal" /\ AllInBand)

Scenario1Call ==
    /\ Called
    /\ Range(last.foods) = {1, 2}
    /\ last.target = Scenario1Target
    /\ last.tolerance = 15

Scenario2Call ==
    /\ Called
    /\ Range(last.foods) = {1, 2}
    /\ last.target \in Scenario2Targets
    /\ last.tolerance = 5

C6_QuantitiesWithinBounds ==
    Converged =>
        \A i \in 1..Len(last.result.foods) :
            /\ last.result.foods[i].amount_g >= 0
            /\ last.result.foods[i].amount_g <= ServingCap * TicksPerUnit
            /\ last.result.foods[i].food_id \in Range(last.foods)

C6_Witness ==
    /\ Converged
    /\ \E i \in 1..Len(last.result.foods) :
          last.result.foods[i].amount_g = ServingCap * TicksPerUnit

\* the sum over the reported entries of quantity x nutrient-per-unit
ReportedSum(m) ==
    SumSeq([i \in 1..Len(last.result.foods) |->
              last.result.foods[i].amount_g
                * Catalog[last.result.foods[i].food_id][m]])

\* the solver's allocation had an entry dropped from the report
EntryOmitted ==
    \E i \in 1..Len(SortById(last.foods)) :
        LET q == Solve(SortById(last.foods), last.target)[i]
        IN  q > 0 /\ Negligible(q)

C8_ZeroTargetEmptyOptimal ==
    (Converged /\ last.target = Target(0, 0, 0, 0)) =>
        /\ last.result.status = "optimal"
        /\ last.result.foods = << >>
        /\ \A m \in MetricSet : last.result.totals[m] = 0

C8_Witness ==
    /\ Converged
    /\ last.target = Target(0, 0, 0, 0)
    /\ Len(last.foods) = 2
    /\ last.result.status = "optimal"

\* C9: an empty candidate set, a tolerance <= 0 or a negative target
\* component gives a structured result with status error and no allocation.
C9_InputErrorIsResult ==
    (/\ Called
     /\ \/ last.foods = << >>
        \/ last.tolerance <= 0
        \/ \E m \in MetricSet : last.target[m] < 0)
        => /\ last.result.status = "error"
           /\ "foods" \notin DOMAIN last.result
           /\ "totals" \notin DOMAIN last.result

C9_Witness ==
    /\ Called
    /\ last.foods # << >>
    /\ last.tolerance = 0
    /\ \A m \in MetricSet : last.target[m] > 0
    /\ last.result.status = "error"

C11_NegligibleOmitted ==
    Converged =>
        \A i \in 1..Len(last.result.foods) :
            last.result.foods[i].amount_g >= NegligibleThreshold * TicksPerUnit

C11_Witness ==
    /\ Converged
    /\ EntryOmitted
    /\ \E i \in 1..Len(last.result.foods) :
          last.result.foods[i].amount_g >= NegligibleThreshold * TicksPerUnit
    /\ Len(last.result.foods) < Len(last.foods)

(***************************************************************************)
(* Properties of the meal planner (under PlannerSpec).                     *)
(***************************************************************************)
\* the rows of the loaded catalog whose meal_type suits a meal, in order
ExpectedCandidates(meal_name) ==
    LET Suits(id) ==
            IF meal_name = "breakfast"
            THEN Catalog[id].meal_type \in {"breakfast", "all"}
            ELSE Catalog[id].meal_type \in {"lunch_dinner", "all"}
    IN  SelectSeq(loaded, Suits)

\* C12: for every meal of the distribution the engine is called with the
\* rows filter_foods_by_meal selects for that meal, with the daily target
\* scaled by the meal's percentage and with tolerance 0.15; when no
\* distribution is given the split is breakfast 0.25, lunch 0.40, dinner 0.35.
C12_PerMealCallContract ==
    /\ \A i \in 1..Len(calls) :
          /\ calls[i].meal = meal_distribution[i].meal
          /\ calls[i].foods = ExpectedCandidates(calls[i].meal)
          /\ \A m \in MetricSet :
                calls[i].target[m] * 100 = daily[m] * meal_distribution[i].pct
          /\ calls[i].tolerance = 15
    /\ (pc # "idle" /\ given = NotGiven) =>
          meal_distribution = << [meal |-> "breakfast", pct |-> 25],
                                 [meal |-> "lunch", pct |-> 40],
                                 [meal |-> "dinner", pct |-> 35] >>

C12_Witness ==
    /\ pc = "returned"
    /\ given = NotGiven
    /\ Len(calls) = 3
    /\ loaded = <<1, 6>>
    /\ calls[1].foods = <<6>>
    /\ calls[2].foods = <<1, 6>>
    /\ calls[2].target = Target(640, 32, 80, 16)
    /\ calls[3].target = Target(560, 28, 70, 14)

\* the percentages of a distribution, summed
RECURSIVE PctSum(_)
PctSum(dist) ==
    IF dist = << >> THEN 0 ELSE Head(dist).pct + PctSum(Tail(dist))

\* the per-meal targets of metric m handed to the engine so far, summed
RECURSIVE TargetSum(_, _)
TargetSum(log, m) ==
    IF log = << >> THEN 0 ELSE Head(log).target[m] + TargetSum(Tail(log), m)

\* C13: in every call of create_daily_plan, with the default or with a
\* caller-supplied distribution, the percentages applied sum to 1.0, so the
\* per-meal targets of each component sum to the daily target.
C13_PercentagesSumToOne ==
    pc = "returned" =>
        /\ PctSum(meal_distribution) = 100
        /\ \A m \in MetricSet : TargetSum(calls, m) = daily[m]

\* the default distribution does sum to 1.0
C13_DefaultSumsToOne ==
    (pc = "returned" /\ given = NotGiven) =>
        /\ PctSum(meal_distribution) = 100
        /\ \A m \in MetricSet : TargetSum(calls, m) = daily[m]

\* the meal names of the distribution in use
PlannedMeals == {meal_distribution[i].meal : i \in 1..Len(meal_distribution)}

\* C14: the returned plan has exactly one entry per meal of the distribution;
\* a meal whose engine result is not optimal (infeasible or error) is
\* recorded as status 'failed' with no foods and no totals, the meals after
\* it are still optimized, and an optimal meal's entry is the engine result
\* unchanged.
C14_ContinuesAfterFailedMeal ==
    pc = "returned" =>
        /\ DOMAIN daily_plan = PlannedMeals
        /\ Len(calls) = Len(meal_distribution)
        /\ \A i \in 1..Len(meal_distribution) :
              LET n == meal_distribution[i].meal
                  r == calls[i].result
              IN  /\ calls[i].meal = n
                  /\ r.status = "optimal" => daily_plan[n] = r
                  /\ r.status # "optimal" =>
                        /\ daily_plan[n].status = "failed"
                        /\ DOMAIN daily_plan[n] = {"status", "message"}

C14_Witness ==
    /\ pc = "returned"
    /\ Len(meal_distribution) = 3
    /\ calls[1].result.status = "error"
    /\ daily_plan[meal_distribution[1].meal].status = "failed"
    /\ calls[2].result.status = "optimal"
    /\ daily_plan[meal_distribution[2].meal] = calls[2].result
    /\ daily_plan[meal_distribution[2].meal].foods # << >>
    /\ daily_plan[meal_distribution[3].meal].status = "failed"

\* a plan with a meal that failed as infeasible before a meal that is optimal
C14_WitnessInfeasible ==
    /\ pc = "returned"
    /\ \E i, j \in 1..Len(meal_distribution) :
          /\ i < j
          /\ calls[i].result.status = "infeasible"
          /\ daily_plan[meal_distribution[j].meal].status = "optimal"

\* C15: whatever filter_foods_by_meal, create_daily_plan and
\* print_daily_plan calls were made, the catalog held by MealPlanner and by
\* FoodDatabase (one and the same frame) has the rows it was loaded with; a
\* meal's candidate set is a copy, so a change to it reaches neither the
\* catalog nor another meal's candidates.
C15_CatalogNeverMutated ==
    /\ planner_df = df
    /\ frames[df] = loaded
    /\ frames[planner_df] = loaded
    /\ \A k \in FrameIds \ {df} :
          frame_meal[k] \notin {"", "edited"} =>
              frames[k] = ExpectedCandidates(frame_meal[k])

C15_Witness ==
    /\ pc = "returned"
    /\ grand_total # None
    /\ \E k, j \in FrameIds \ {df} :
          /\ frame_meal[k] = "edited"
          /\ frames[k] # ExpectedCandidates("lunch")
          /\ frame_meal[j] = "breakfast"
          /\ frames[j] # << >>
    /\ frames[df] = <<3, 1, 2>>

C18_OneInvocationPerMeal ==
    /\ Len(calls) = pos
    /\ \A i \in 1..Len(calls) :
          /\ calls[i].meal = meal_distribution[i].meal
          /\ calls[i].tolerance = PlannerTolerance
          /\ calls[i].foods = ExpectedCandidates(calls[i].meal)
    /\ pc = "returned" => Len(calls) = Len(meal_distribution)

C18_Witness ==
    /\ pc = "returned"
    /\ Len(calls) = 3
    /\ calls[1].result.status = "optimal"
    /\ calls[2].result.status = "infeasible"
    /\ calls[3].result.status = "infeasible"
    /\ previous # None

(***************************************************************************)
(* Properties of the demo's main loop (under DemoSpec).                    *)
(***************************************************************************)
\* C17: on every path of the main loop (calculator, preset, custom entry)
\* the targets handed to create_daily_plan have calories, protein, carbs and
\* fat all >= 0.
C17_TargetsNonNegative ==
    passed # None => \A m \in MetricSet : LessEq(0, passed.targets[m])

\* the targets of a preset are positive, those of a validated custom entry
\* are positive or nan
C17_PresetAndCustomPositive ==
    (passed # None /\ passed.path \in {"preset", "custom"}) =>
        \A m \in MetricSet :
            \/ Less(0, passed.targets[m])
            \/ passed.path = "custom" /\ passed.targets[m] = NaN

(***************************************************************************)
(* Properties of the validators (under ValidationSpec).                    *)
(***************************************************************************)
CustomCall == checked # None /\ checked.fn = "validate_custom_targets"

\* the claimed accept set: every bound inclusive
InClaimedRange(c, p, cb, f) ==
    /\ LessEq(500, c) /\ LessEq(c, 5000)
    /\ LessEq(Scaled(c, 7), Scaled(MacroCalories(p, cb, f), 10))
    /\ LessEq(Scaled(MacroCalories(p, cb, f), 10), Scaled(c, 12))
    /\ LessEq(30, p) /\ LessEq(p, 400)
    /\ LessEq(50, cb) /\ LessEq(cb, 600)
    /\ LessEq(20, f) /\ LessEq(f, 200)

\* the claimed checks, in the claimed order, each with its message
ClaimedChecks(c, p, cb, f) ==
    << <<Less(c, 500), "WARNING: Calorie target is very low (< 500 kcal)">>,
       <<Less(Scaled(c, 12), Scaled(MacroCalories(p, cb, f), 10)),
         "ERROR: Macronutrients don't match calorie target!">>,
       <<Less(Scaled(MacroCalories(p, cb, f), 10), Scaled(c, 7)),
         "WARNING: Macronutrients are too low for calorie target">>,
       <<Less(p, 30), "WARNING: Protein is too low">>,
       <<Less(cb, 50), "WARNING: Carbs are too low">>,
       <<Less(f, 20), "WARNING: Fat is too low">>,
       <<Less(400, p), "WARNING: Protein is very high">>,
       <<Less(600, cb), "WARNING: Carbs are very high">>,
       <<Less(200, f), "WARNING: Fat is very high">>,
       <<Less(5000, c), "WARNING: Calories are very high">> >>

\* the message of the first check of a list that fails
FirstFailing(checks) ==
    LET failing == {i \in DOMAIN checks : checks[i][1]}
    IN  checks[CHOOSE i \in failing : \A j \in failing : i <= j][2]

\* what the claim says of a call of validate_custom_targets
AsClaimed(a, r) ==
    /\ r.is_valid <=> InClaimedRange(a[1], a[2], a[3], a[4])
    /\ r.is_valid => r.message = NoMessage
    /\ ~r.is_valid =>
          /\ r.message \notin {NoMessage, ""}
          /\ r.message = FirstFailing(ClaimedChecks(a[1], a[2], a[3], a[4]))

\* C19: validate_custom_targets returns (True, None) exactly when
\* 500 <= calories <= 5000, 0.7*calories <= 4*protein + 4*carbs + 9*fat
\* <= 1.2*calories, 30 <= protein <= 400, 50 <= carbs <= 600 and
\* 20 <= fat <= 200; otherwise it returns False with the non-empty message
\* of the first failing check in the order low calories, macros above,
\* macros below, low protein, low carbs, low fat, high protein, high carbs,
\* high fat, high calories.
C19_ValidateCustomTargets ==
    CustomCall => AsClaimed(checked.args, checked.result)

\* on numbers the function is as claimed: nan is what it lets through
C19_AsClaimedOnNumbers ==
    (CustomCall /\ \A i \in 1..4 : checked.args[i] # NaN) =>
        AsClaimed(checked.args, checked.result)

\* a nan among the arguments is accepted unless a check on a number fails
C19_NaNAccepted ==
    /\ CustomCall
    /\ checked.args = <<NaN, 100, 200, 50>>
    /\ checked.result = Valid

C19_Witness ==
    /\ CustomCall
    /\ checked.args = <<5001, 29, 600, 201>>
    /\ ~checked.result.is_valid
    /\ checked.result.message = "WARNING: Protein is too low"

\* the bounds themselves are accepted
C19_WitnessBounds ==
    /\ CustomCall
    /\ checked.args \in {<<500, 30, 50, 20>>, <<5000, 400, 600, 200>>,
                         <<2000, 150, 225, 100>>, <<2000, 100, 160, 40>>}
    /\ checked.result.is_valid

\* C20: for every input demo.py's own validate_custom_targets and
\* validate_bmi_inputs return the same is_valid flag as validation.py's
\* functions of the same name; only the message texts differ.
C20_FallbackEquivalent ==
    checked # None => checked.fallback.is_valid = checked.result.is_valid

\* both turn down 5001 kcal, each at its own check and in its own words
C20_Witness ==
    /\ CustomCall
    /\ checked.args = <<5001, 400, 600, 200>>
    /\ ~checked.result.is_valid /\ ~checked.fallback.is_valid
    /\ checked.result.message = "WARNING: Calories are very high"
    /\ checked.fallback.message = "WARNING: Some values are very high"

\* the two validate_bmi_inputs agree on an age below and on the bounds
C20_WitnessBmi ==
    /\ checked # None /\ checked.fn = "validate_bmi_inputs"
    /\ checked.args \in {<<30, 100, 14>>, <<300, 250, 100>>}
    /\ checked.fallback = checked.result

(***************************************************************************)
(* Properties of the demo's custom entry and main loop (under DemoSpec).   *)
(***************************************************************************)
\* C21: get_user_targets ends after at most 3 attempts; it returns None
\* after exactly 3 failed attempts in total (non-numeric input and failed
\* validation counted together, in any mix), never prompts a 4th time, and
\* every non-None value it returns is a target vector for which
\* validate_custom_targets returned valid.
C21_BoundedEntry ==
    got # None =>
        /\ got.prompts <= 3
        /\ got.prompts = 3 => got.status = "returned"
        /\ got.status = "asking" => Len(got.failures) = got.prompts
        /\ (got.status = "returned" /\ got.value = None) =>
              /\ Len(got.failures) = 3
              /\ got.prompts = 3
        /\ Len(got.failures) = 3 =>
              got.status = "returned" /\ got.value = None
        /\ (got.status = "returned" /\ got.value # None) =>
              /\ DemoValidate(got.entry[1], got.entry[2], got.entry[3],
                              got.entry[4]).is_valid
              /\ got.value = Entered(got.entry)
              /\ got.prompts = Len(got.failures) + 1

\* None after a ValueError, a failed validation and a ValueError
C21_Witness ==
    /\ got # None
    /\ got.status = "returned"
    /\ got.value = None
    /\ got.failures = <<"ValueError", "invalid", "ValueError">>
    /\ got.prompts = 3
    /\ demo_pc = "menu"

\* valid targets at the third and last prompt
C21_WitnessThird ==
    /\ got # None
    /\ got.status = "returned"
    /\ got.value = Target(20000, 1000, 2000, 500)
    /\ got.failures = <<"invalid", "ValueError">>
    /\ got.prompts = 3

\* the plan is empty or none of its meals has status 'optimal'
NothingOptimal(p) ==
    DOMAIN p = {} \/ \A n \in DOMAIN p : p[n].status # "optimal"

\* C22: in every iteration of run(), create_daily_plan is called only after
\* a non-None target vector was obtained from menu choice 1, 2 or 3 (never
\* after choice 4 or an invalid choice); display_results returns False,
\* without printing the plan, exactly when the plan is empty or no meal has
\* status 'optimal'; and the visualization prompt and visualize_results are
\* reached only in an iteration where display_results returned True.
C22_MainLoopOrdering ==
    /\ passed # None =>
          /\ passed.choice \in {"1", "2", "3"}
          /\ passed.choice = choice
          /\ passed.targets # None
          /\ passed.targets = targets
    /\ choice \in {"4", "other"} =>
          passed = None /\ demo_pc \in {"menu", "exited"}
    /\ demo_pc \in {"planned", "retry", "viz", "visualize", "again"} =>
          passed # None
    /\ displayed # None =>
          /\ displayed.success = FALSE <=> NothingOptimal(displayed.plan)
          /\ displayed.success = TRUE <=> ~NothingOptimal(displayed.plan)
          /\ displayed.printed <=> displayed.success
    /\ demo_pc \in {"viz", "visualize"} =>
          /\ success = TRUE
          /\ displayed # None
          /\ displayed.by = "run"
          /\ displayed.plan = run_plan
          /\ displayed.success
    /\ demo_pc = "retry" => success = FALSE

\* visualize_results is reached with a plan whose breakfast failed
C22_Witness ==
    /\ demo_pc = "visualize"
    /\ passed # None
    /\ passed.choice = "2"
    /\ run_plan = [n \in {"breakfast", "lunch", "dinner"} |->
                     [status |-> IF n = "breakfast" THEN "failed"
                                 ELSE "optimal"]]
    /\ displayed.printed
    /\ success = TRUE

\* no meal is optimal: False, nothing printed, and the retry question
C22_WitnessFailed ==
    /\ demo_pc = "retry"
    /\ \A n \in DOMAIN run_plan : run_plan[n].status = "failed"
    /\ success = FALSE
    /\ ~displayed.printed

\* an empty plan: False, nothing printed
C22_WitnessEmpty ==
    /\ displayed # None
    /\ displayed.plan = << >>
    /\ ~displayed.success
    /\ ~displayed.printed

\* an invalid choice and an exit never lead to a plan
C22_WitnessNoPlan ==
    /\ choice = "other"
    /\ demo_pc = "menu"
    /\ passed = None
    /\ run_plan # None

(***************************************************************************)
(* Properties of the meal filter (under PlannerSpec).                      *)
(***************************************************************************)
\* the frames filter_foods_by_meal returned and nobody changed since
Unedited == {k \in FrameIds \ {df} : frame_meal[k] \notin {"", "edited"}}

\* the foods of a frame
FoodsOf(k) == {frames[k][i] : i \in DOMAIN frames[k]}

\* the catalog foods with one of the given meal types
Tagged(types) ==
    {loaded[i] : i \in {j \in DOMAIN loaded : Catalog[loaded[j]].meal_type \in types}}

\* C23: filter_foods_by_meal('breakfast') returns exactly the catalog foods
\* whose meal_type is 'breakfast' or 'all'; for every other meal name
\* (lunch, dinner or an unknown name) exactly those whose meal_type is
\* 'lunch_dinner' or 'all'.  So a 'breakfast' food is never a candidate for
\* lunch or dinner, a 'lunch_dinner' food never one for breakfast, and an
\* 'all' food is a candidate for every meal.
C23_MealFiltering ==
    \A k \in Unedited :
        /\ frame_meal[k] = "breakfast" =>
              /\ FoodsOf(k) = Tagged({"breakfast", "all"})
              /\ FoodsOf(k) \cap Tagged({"lunch_dinner"}) = {}
        /\ frame_meal[k] # "breakfast" =>
              /\ FoodsOf(k) = Tagged({"lunch_dinner", "all"})
              /\ FoodsOf(k) \cap Tagged({"breakfast"}) = {}
        /\ Tagged({"all"}) \subseteq FoodsOf(k)
        /\ Len(frames[k]) = Cardinality(FoodsOf(k))

\* lunch over breakfast food 3 and lunch_dinner foods 1 and 2
C23_Witness ==
    /\ loaded = <<3, 1, 2>>
    /\ \E k \in Unedited : frame_meal[k] = "lunch" /\ frames[k] = <<1, 2>>
    /\ \E k \in Unedited : frame_meal[k] = "breakfast" /\ frames[k] = <<3>>

\* an unknown meal name gets the lunch and dinner foods, not those tagged
\* with its name; an 'all' food is in the breakfast and in the dinner frame
C23_WitnessUnknown ==
    \/ /\ loaded = <<7, 1>>
       /\ \E k \in Unedited : frame_meal[k] = "snack" /\ frames[k] = <<1>>
    \/ /\ loaded = <<1, 6>>
       /\ \E k \in Unedited : frame_meal[k] = "breakfast" /\ frames[k] = <<6>>
       /\ \E k \in Unedited : frame_meal[k] = "dinner" /\ frames[k] = <<1, 6>>

(***************************************************************************)
(* Properties of calculate_bmi (under CalculatorSpec).                     *)
(***************************************************************************)
\* the category the documented thresholds give a value in tenths
CategoryOf(tenths) ==
    IF tenths < 185 THEN "Underweight"
    ELSE IF tenths < 250 THEN "Normal"
    ELSE IF tenths < 300 THEN "Overweight"
    ELSE "Obese"

\* C24: for every weight and height the result of calculate_bmi has exactly
\* one category, and it matches the reported (one-decimal rounded) 'bmi'
\* under the documented thresholds: Underweight iff bmi < 18.5, Normal iff
\* 18.5 <= bmi < 25, Overweight iff 25 <= bmi < 30, Obese iff bmi >= 30.
C24_BmiCategoryAgrees ==
    bmi_data # None =>
        /\ bmi_data.category \in {"Underweight", "Normal", "Overweight", "Obese"}
        /\ bmi_data.category = CategoryOf(bmi_data.bmi)

\* the category is that of the unrounded bmi, and it differs from the
\* category of the reported value only when rounding up reached a threshold
C24_CategoryOfUnrounded ==
    bmi_data # None =>
        LET n == 1000 * bmi_data.weight10
            d == bmi_data.height_cm * bmi_data.height_cm
        IN  /\ bmi_data.category = "Underweight" <=> 2 * n < 37 * d
            /\ bmi_data.category = "Normal" <=> (37 * d <= 2 * n /\ n < 25 * d)
            /\ bmi_data.category = "Overweight" <=> (25 * d <= n /\ n < 30 * d)
            /\ bmi_data.category = "Obese" <=> 30 * d <= n
            /\ bmi_data.category # CategoryOf(bmi_data.bmi) =>
                  /\ bmi_data.bmi \in {185, 250, 300}
                  /\ 10 * n < bmi_data.bmi * d

\* 56.6 kg at 175 cm: bmi 18.48, reported 18.5, Underweight
C24_Mismatch ==
    /\ bmi_data # None
    /\ bmi_data.weight10 = 566
    /\ bmi_data.height_cm = 175
    /\ bmi_data.bmi = 185
    /\ bmi_data.category = "Underweight"

====
